---- MODULE Spec2Model ----
(***************************************************************************)
(* Model of the UCT memory-domain layer, src/src/uct/base/uct_md.c:        *)
(* transport lookup, resource discovery, configuration bundles, memory     *)
(* registration checks, remote-key unpacking and interface-open dispatch.  *)
(*                                                                         *)
(* Every function of the file is an operator that computes what the C code *)
(* computes from its arguments and from the behaviour of the component or  *)
(* transport callbacks it invokes; an action draws the arguments and the   *)
(* callback behaviour from small sets, applies the operator and records    *)
(* the call in op / args / ret / calls.                                    *)
(*                                                                         *)
(* C strings are NUL-terminated byte sequences (<<1, 2, 0>>), the null     *)
(* pointer is the empty sequence, flag words are sets of flag names.       *)
(***************************************************************************)
EXTENDS Integers, Sequences, FiniteSets, TLC

\* The record fields of the model.  TLC orders the fields of a record by the
\* place their names first occur in the module; every record below lists its
\* fields in this order, so that no record is ever reordered while checking.
FieldOrder ==
    <<[address |-> 1], [alloc_failed |-> 2], [attr |-> 3], [bad |-> 4],
      [blk |-> 5], [buf |-> 6], [bundle |-> 7], [calloc_ok |-> 8],
      [calls |-> 9], [cap_flags |-> 10], [comp |-> 11],
      [component_name |-> 12], [config |-> 13], [entries |-> 14],
      [field_mask |-> 15], [fields |-> 16], [fill |-> 17], [flags |-> 18],
      [fn |-> 19], [handle |-> 20], [heap |-> 21], [i |-> 22], [id |-> 23],
      [iface |-> 24], [kind |-> 25], [l |-> 26], [length |-> 27],
      [malloc_ok |-> 28], [md_flags |-> 29], [md_name |-> 30], [mdq |-> 31],
      [memh |-> 32], [n |-> 33], [name |-> 34], [next |-> 35],
      [num_resources |-> 36], [num_resources_p |-> 37], [o |-> 38],
      [open_mode |-> 39], [owned |-> 40], [params |-> 41],
      [prefix_blk |-> 42], [realloc_ok |-> 43], [resources |-> 44],
      [resources_p |-> 45], [rkey |-> 46], [rkey_buffer |-> 47],
      [rkey_packed_size |-> 48], [src |-> 49], [status |-> 50],
      [strdup_ok |-> 51], [table |-> 52], [table_prefix |-> 53], [tl |-> 54],
      [tl_name |-> 55], [tlc |-> 56], [worker |-> 57], [written |-> 58]>>

\* ------------------------------------------------------------------ bounds
\* longest transport list registered on the component
MaxTl == 2
\* largest number of resources one transport reports
MaxTlRes == 2
\* largest number of heap-owning fields in a configuration table
MaxOwned == 2
\* most results of one kind (resource arrays, MD resource descriptors,
\* configuration bundles) a caller holds at a time without releasing one
MaxHeld == 2
\* field-value blocks that belong to no bundle (left behind by failed reads)
\* after which no further configuration is read
MaxLeaked == 1

\* ------------------------------------------------------- program constants
\* fixed width of the component-name region (a header outside this file
\* sets the value; the model is parametric in it)
UCT_MD_COMPONENT_NAME_MAX == 3
\* fixed width of the md_name field of an MD resource descriptor (likewise)
UCT_MD_NAME_MAX == 3

UCS_OK                == "UCS_OK"
UCS_ERR_NO_MEMORY     == "UCS_ERR_NO_MEMORY"
UCS_ERR_INVALID_PARAM == "UCS_ERR_INVALID_PARAM"
UCS_ERR_NO_DEVICE     == "UCS_ERR_NO_DEVICE"
UCS_ERR_IO_ERROR      == "UCS_ERR_IO_ERROR"

\* statuses a component or transport callback may return
CompStatus == {UCS_OK, UCS_ERR_IO_ERROR, UCS_ERR_INVALID_PARAM}

UCT_MD_FLAG_SOCKADDR == {"UCT_MD_FLAG_SOCKADDR"}
MdFlagWords == {{}, {"UCT_MD_FLAG_REG"}, {"UCT_MD_FLAG_SOCKADDR"},
                {"UCT_MD_FLAG_REG", "UCT_MD_FLAG_SOCKADDR"}}

UCT_MD_MEM_ACCESS_ALL == {"UCT_MD_MEM_ACCESS_REMOTE_PUT",
                          "UCT_MD_MEM_ACCESS_REMOTE_GET",
                          "UCT_MD_MEM_ACCESS_REMOTE_ATOMIC"}
MemFlagWords == SUBSET (UCT_MD_MEM_ACCESS_ALL \cup
                        {"UCT_MD_MEM_FLAG_NONBLOCK", "UCT_MD_MEM_FLAG_FIXED"})

UCT_IFACE_PARAM_FIELD_OPEN_MODE     == {"UCT_IFACE_PARAM_FIELD_OPEN_MODE"}
UCT_IFACE_OPEN_MODE_DEVICE          == {"UCT_IFACE_OPEN_MODE_DEVICE"}
UCT_IFACE_OPEN_MODE_SOCKADDR_SERVER == {"UCT_IFACE_OPEN_MODE_SOCKADDR_SERVER"}
UCT_IFACE_OPEN_MODE_SOCKADDR_CLIENT == {"UCT_IFACE_OPEN_MODE_SOCKADDR_CLIENT"}

\* ------------------------------------------------------------- C strings
NULL == <<>>

\* transport names "a", "ab", "b"
TlNames == {<<1, 0>>, <<1, 2, 0>>, <<2, 0>>}

\* char name[UCT_MD_COMPONENT_NAME_MAX] initialised from the string s
NameArray(s) ==
    [i \in 1..UCT_MD_COMPONENT_NAME_MAX |-> IF i <= Len(s) THEN s[i] ELSE 0]

\* component names "a", "ab" and one that fills the whole array
ComponentNames == {NameArray(<<1>>), NameArray(<<1, 2>>),
                   [i \in 1..UCT_MD_COMPONENT_NAME_MAX |-> 1]}

RECURSIVE strcmp(_, _)
strcmp(a, b) ==
    IF a[1] # b[1] THEN a[1] - b[1]
    ELSE IF a[1] = 0 THEN 0
    ELSE strcmp(Tail(a), Tail(b))

RECURSIVE strncmp(_, _, _)
strncmp(a, b, n) ==
    IF n = 0 THEN 0
    ELSE IF a[1] # b[1] THEN a[1] - b[1]
    ELSE IF a[1] = 0 THEN 0
    ELSE strncmp(Tail(a), Tail(b), n - 1)

memcpy(src, n) == [i \in 1..n |-> src[i]]

\* ------------------------------------------------------------------ state
VARIABLES
    ENABLE_DEBUG_DATA,    \* build option: component name packed into rkeys
    ENABLE_PARAMS_CHECK,  \* build option: parameter checks compiled in
    mdc_name,             \* md->component->name
    tl_list,              \* md->component->tl_list: the transports' names
    op, args, ret,        \* the last call, its arguments and what it returned
    calls,                \* callbacks the call invoked, in order
    heap,                 \* blocks allocated and not yet freed: [kind, id]
    pc, q,                \* uct_md_query_tl_resources: position and locals
    cfg                   \* the configuration bundles read and not yet released

vars == <<ENABLE_DEBUG_DATA, ENABLE_PARAMS_CHECK, mdc_name, tl_list,
          op, args, ret, calls, heap, pc, q, cfg>>

registry == <<ENABLE_DEBUG_DATA, ENABLE_PARAMS_CHECK, mdc_name, tl_list>>

TlLists == UNION {[1..n -> TlNames] : n \in 0..MaxTl}

\* ------------------------------------------------------ transport lookup
RECURSIVE FindFrom(_, _, _, _)
FindFrom(list, i, md_flags, tl_name) ==
    IF i > Len(list) THEN 0
    ELSE IF \/ (tl_name # NULL /\ strcmp(tl_name, list[i]) = 0)
            \/ (tl_name = NULL /\ (md_flags \cap UCT_MD_FLAG_SOCKADDR) # {})
         THEN i
         ELSE FindFrom(list, i + 1, md_flags, tl_name)

\* mutant: the capability test no longer requires the name to be absent
RECURSIVE FindFromAnyName(_, _, _, _)
FindFromAnyName(list, i, md_flags, tl_name) ==
    IF i > Len(list) THEN 0
    ELSE IF \/ (tl_name # NULL /\ strcmp(tl_name, list[i]) = 0)
            \/ (md_flags \cap UCT_MD_FLAG_SOCKADDR) # {}
         THEN i
         ELSE FindFromAnyName(list, i + 1, md_flags, tl_name)
find_tl_flag_without_null_test(list, md_flags, tl_name) ==
    FindFromAnyName(list, 1, md_flags, tl_name)

\* the index in tl_list of the transport returned, 0 for a null result
uct_find_tl_on_md(list, md_flags, tl_name) == FindFrom(list, 1, md_flags, tl_name)

\* ------------------------------------------------------------- md query
\* (the sizes modelled are far from SIZE_MAX, so the size_t sum does not wrap)
\* mutant: the name width is added whether or not ENABLE_DEBUG_DATA is set
md_query_always_adds_width(name, debug, comp) ==
    IF comp.status # UCS_OK
    THEN [attr |-> comp.attr, calls |-> <<[fn |-> "md.query"]>>, status |-> comp.status]
    ELSE [attr   |-> [comp.attr EXCEPT
                        !.component_name = memcpy(name, UCT_MD_COMPONENT_NAME_MAX),
                        !.rkey_packed_size = @ + UCT_MD_COMPONENT_NAME_MAX],
          calls  |-> <<[fn |-> "md.query"]>>,
          status |-> UCS_OK]

\* comp: what md->ops->query returned and what *md_attr holds after it
uct_md_query(name, debug, comp) ==
    IF comp.status # UCS_OK
    THEN [attr |-> comp.attr, calls |-> <<[fn |-> "md.query"]>>, status |-> comp.status]
    ELSE [attr   |-> [comp.attr EXCEPT
                        !.component_name = memcpy(name, UCT_MD_COMPONENT_NAME_MAX),
                        !.rkey_packed_size =
                            IF debug THEN @ + UCT_MD_COMPONENT_NAME_MAX ELSE @],
          calls  |-> <<[fn |-> "md.query"]>>,
          status |-> UCS_OK]

MdAttrs == [cap_flags : {{}, UCT_MD_FLAG_SOCKADDR},
            component_name : ComponentNames,
            rkey_packed_size : {0, 8}]
MdQueryResults == [attr : MdAttrs, status : CompStatus]

\* ---------------------------------------------------------- memory checks
\* mutant: any flag at all passes the check
mem_check_flags_nonzero(flags) ==
    IF flags = {} THEN UCS_ERR_INVALID_PARAM ELSE UCS_OK

uct_mem_check_flags(flags) ==
    IF (flags \cap UCT_MD_MEM_ACCESS_ALL) = {} THEN UCS_ERR_INVALID_PARAM ELSE UCS_OK

\* comp: the status and handle md->ops->mem_alloc would return
uct_md_mem_alloc(length, flags, comp) ==
    IF uct_mem_check_flags(flags) # UCS_OK
    THEN [calls |-> <<>>, memh |-> 0, status |-> uct_mem_check_flags(flags)]
    ELSE [calls |-> <<[flags |-> flags, fn |-> "md.mem_alloc", length |-> length]>>,
          memh |-> comp.memh,
          status |-> comp.status]

uct_md_mem_reg(address, length, flags, comp) ==
    IF length = 0 \/ address = 0
    THEN [calls |-> <<>>, memh |-> 0, status |-> UCS_ERR_INVALID_PARAM]
    ELSE IF uct_mem_check_flags(flags) # UCS_OK
    THEN [calls |-> <<>>, memh |-> 0, status |-> uct_mem_check_flags(flags)]
    ELSE [calls |-> <<[address |-> address,
                       flags |-> flags,
                       fn |-> "md.mem_reg",
                       length |-> length]>>,
          memh |-> comp.memh,
          status |-> comp.status]

uct_md_mem_advise(addr, length, comp) ==
    IF length = 0 \/ addr = 0
    THEN [calls |-> <<>>, memh |-> 0, status |-> UCS_ERR_INVALID_PARAM]
    ELSE [calls |-> <<[address |-> addr, fn |-> "md.mem_advise", length |-> length]>>,
          memh |-> 0,
          status |-> comp.status]

MemResults == [memh : {7}, status : CompStatus]

\* ------------------------------------------------------- rkey unpacking
\* mutant: the buffer is not advanced past the name region
rkey_unpack_no_advance(name, debug, check, rkey_buffer, comp) ==
    IF debug /\ check /\ strncmp(rkey_buffer, name, UCT_MD_COMPONENT_NAME_MAX) # 0
    THEN [calls |-> <<>>, status |-> UCS_ERR_INVALID_PARAM]
    ELSE [calls |-> <<[fn |-> "rkey_unpack", rkey_buffer |-> rkey_buffer]>>,
          status |-> comp]

\* comp: the status component->rkey_unpack would return
uct_rkey_unpack(name, debug, check, rkey_buffer, comp) ==
    IF debug /\ check /\ strncmp(rkey_buffer, name, UCT_MD_COMPONENT_NAME_MAX) # 0
    THEN [calls |-> <<>>, status |-> UCS_ERR_INVALID_PARAM]
    ELSE [calls  |-> <<[fn |-> "rkey_unpack",
                        rkey_buffer |->
                            IF debug
                            THEN SubSeq(rkey_buffer, UCT_MD_COMPONENT_NAME_MAX + 1,
                                        Len(rkey_buffer))
                            ELSE rkey_buffer]>>,
          status |-> comp]

\* *rkey_p = 0xdeadbeef; *handle_p = NULL; the buffer is not read
uct_md_stub_rkey_unpack(rkey_buffer) ==
    [calls |-> <<>>, handle |-> NULL, rkey |-> "0xdeadbeef", status |-> UCS_OK]

Bytes == 0..2
NameRegions == [1..UCT_MD_COMPONENT_NAME_MAX -> Bytes]
Payloads == {<<>>, <<1>>, <<0, 2>>}
RkeyBuffers == {r \o p : r \in NameRegions, p \in Payloads}

\* -------------------------------------------------- interface open dispatch
\* UCT_CHECK_PARAM(_condition, ...): TRUE when the macro rejects the call
UCT_CHECK_PARAM(check, condition) == check /\ ~condition

\* mutant: a transport's failure is reported as a missing device
IfaceDispatchMasksError(tlc, worker, params, config, tl) ==
    IF tlc = 0 \/ tl.status # UCS_OK
    THEN [calls |-> IF tlc = 0 THEN <<>>
                    ELSE <<[config |-> config, fn |-> "tl.iface_open",
                            params |-> params, tl |-> tlc, worker |-> worker]>>,
          iface |-> 0, status |-> UCS_ERR_NO_DEVICE]
    ELSE [calls |-> <<[config |-> config, fn |-> "tl.iface_open",
                       params |-> params, tl |-> tlc, worker |-> worker]>>,
          iface |-> tl.iface, status |-> tl.status]

\* tlc->iface_open(md, worker, params, config, iface_p) on the transport found
IfaceDispatch(tlc, worker, params, config, tl) ==
    IF tlc = 0
    THEN [calls |-> <<>>, iface |-> 0, status |-> UCS_ERR_NO_DEVICE]
    ELSE [calls |-> <<[config |-> config,
                       fn |-> "tl.iface_open",
                       params |-> params,
                       tl |-> tlc,
                       worker |-> worker]>>,
          iface |-> tl.iface,
          status |-> tl.status]

\* mutant: the open-mode field is checked only after the transport lookup
iface_open_checks_after_lookup(list, name, debug, check, worker, params, config, mdq, tl) ==
    LET qr  == uct_md_query(name, debug, mdq)
        tlc == uct_find_tl_on_md(list, qr.attr.cap_flags, params.tl_name)
        d   == IfaceDispatch(tlc, worker, params, config, tl)
        looked == qr.calls \o <<[fn |-> "uct_find_tl_on_md",
                                 md_flags |-> qr.attr.cap_flags,
                                 tl_name |-> params.tl_name]>>
    IN  IF qr.status # UCS_OK
        THEN [calls |-> qr.calls, iface |-> 0, status |-> qr.status]
        ELSE IF UCT_CHECK_PARAM(check,
                    (params.field_mask \cap UCT_IFACE_PARAM_FIELD_OPEN_MODE) # {})
        THEN [calls |-> looked, iface |-> 0, status |-> UCS_ERR_INVALID_PARAM]
        ELSE [d EXCEPT !.calls = looked \o @]

\* mdq: the behaviour of md->ops->query; tl: that of the transport's iface_open
uct_iface_open(list, name, debug, check, worker, params, config, mdq, tl) ==
    LET qr     == uct_md_query(name, debug, mdq)
        status == qr.status
        Lookup(tl_name) ==
            LET tlc == uct_find_tl_on_md(list, qr.attr.cap_flags, tl_name)
                d   == IfaceDispatch(tlc, worker, params, config, tl)
            IN  [d EXCEPT !.calls = qr.calls
                            \o <<[fn |-> "uct_find_tl_on_md",
                                  md_flags |-> qr.attr.cap_flags,
                                  tl_name |-> tl_name]>> \o @]
    IN  IF status # UCS_OK
        THEN [calls |-> qr.calls, iface |-> 0, status |-> status]
        ELSE IF UCT_CHECK_PARAM(check,
                    (params.field_mask \cap UCT_IFACE_PARAM_FIELD_OPEN_MODE) # {})
        THEN [calls |-> qr.calls, iface |-> 0, status |-> UCS_ERR_INVALID_PARAM]
        ELSE IF (params.open_mode \cap UCT_IFACE_OPEN_MODE_DEVICE) # {}
        THEN Lookup(params.tl_name)
        ELSE IF \/ (params.open_mode \cap UCT_IFACE_OPEN_MODE_SOCKADDR_CLIENT) # {}
                \/ (params.open_mode \cap UCT_IFACE_OPEN_MODE_SOCKADDR_SERVER) # {}
        THEN Lookup(NULL)
        ELSE [calls |-> qr.calls, iface |-> 0, status |-> status]

OpenModes == {UCT_IFACE_OPEN_MODE_DEVICE, UCT_IFACE_OPEN_MODE_SOCKADDR_CLIENT,
              UCT_IFACE_OPEN_MODE_SOCKADDR_SERVER,
              UCT_IFACE_OPEN_MODE_DEVICE \cup UCT_IFACE_OPEN_MODE_SOCKADDR_SERVER,
              {}, {"UCT_IFACE_OPEN_MODE_UNKNOWN"}}
IfaceParams == [field_mask : {{}, UCT_IFACE_PARAM_FIELD_OPEN_MODE,
                              {"UCT_IFACE_PARAM_FIELD_CPU_MASK"}},
                open_mode  : OpenModes,
                tl_name    : {NULL, <<1, 0>>, <<1, 2, 0>>}]
IfaceResults == [iface : {5}, status : {UCS_OK, UCS_ERR_IO_ERROR}]

\* ---------------------------------------------------- resource discovery
Block(kind, id) == [id |-> id, kind |-> kind]
NoBlock == Block("null", 0)

\* ucs_free(NULL) does nothing
ucs_free(h, blk) == h \ {blk}

\* the live blocks of one kind
Held(h, kind) == {b \in h : b.kind = kind}

\* A block the allocator hands out is distinct from every live block; the
\* model names it by its kind and the least identifier that no live block of
\* the kind carries.
Fresh(h, kind) ==
    CHOOSE n \in 1..(Cardinality(Held(h, kind)) + 1) :
        /\ \A b \in Held(h, kind) : b.id # n
        /\ \A m \in 1..(n - 1) : \E b \in Held(h, kind) : b.id = m

ucs_malloc(h, kind) == Block(kind, Fresh(h, kind))

\* locals of uct_md_query_tl_resources before the loop
QueryLocals == [entries |-> <<>>,
                i |-> 1,
                num_resources |-> 0,
                resources |-> NoBlock]

\* What a transport's query_resources may do: fail (allocating nothing), or
\* succeed with n entries in a buffer of its own; entry number bad, if any,
\* carries another name than the transport's.  realloc_ok: whether the
\* ucs_realloc of this iteration, if reached, succeeds.
TlBehaviours ==
    [bad : {0},
     buf : {FALSE},
     n : {0},
     realloc_ok : {TRUE},
     status : CompStatus \ {UCS_OK}]
    \cup [bad : {0}, buf : BOOLEAN, n : {0}, realloc_ok : {TRUE}, status : {UCS_OK}]
    \cup {b \in [bad : 0..MaxTlRes,
                 buf : {TRUE},
                 n : 1..MaxTlRes,
                 realloc_ok : BOOLEAN,
                 status : {UCS_OK}] : b.bad <= b.n}

OtherName(name) == CHOOSE o \in TlNames : o # name

\* the array the transport tl (named name) returns; src records the producer
TlEntries(tl, name, b) ==
    [k \in 1..b.n |-> [src |-> tl,
                       tl_name |-> IF k = b.bad THEN OtherName(name) ELSE name]]

\* mutant: the assertion is compiled out
TlNamesNotAsserted(name, ents) == TRUE

\* ucs_assert_always(!strcmp(tlc->name, tl_resources[i].tl_name)) for all i
TlNamesAsserted(name, ents) ==
    \A k \in 1..Len(ents) : strcmp(name, ents[k].tl_name) = 0

\* mutant: the error path returns without freeing the accumulated array
QueryErrLeaks(l, h, status) ==
    [heap |-> h, l |-> l, next |-> "return", status |-> status]

\* err: ucs_free(resources); return status
QueryErr(l, h, status) ==
    [heap |-> ucs_free(h, l.resources), l |-> l, next |-> "return", status |-> status]

\* One iteration of the loop over mdc->tl_list, on transport l.i named name.
\* next: "loop" (continue), "return" (goto err) or "abort" (assertion failed).
QueryIter(l, h, name, b) ==
    LET tl_resources == IF b.buf THEN ucs_malloc(h, "tl_resources") ELSE NoBlock
        h1   == IF b.buf THEN h \cup {tl_resources} ELSE h
        ents == TlEntries(l.i, name, b)
        tmp  == ucs_malloc(h1 \ {l.resources}, "md_resources")
        l1   == [l EXCEPT !.i = @ + 1]
    IN  IF b.status # UCS_OK
        THEN [heap |-> h, l |-> l1, next |-> "loop", status |-> b.status]
        ELSE IF b.n = 0
        THEN [heap |-> ucs_free(h1, tl_resources),
              l |-> l1,
              next |-> "loop",
              status |-> b.status]
        ELSE IF ~b.realloc_ok
        THEN QueryErr(l1, ucs_free(h1, tl_resources), UCS_ERR_NO_MEMORY)
        ELSE IF ~TlNamesAsserted(name, ents)
        THEN [heap |-> (h1 \ {l.resources}) \cup {tmp},
              l |-> l1,
              next |-> "abort",
              status |-> b.status]
        ELSE [heap |-> ucs_free((h1 \ {l.resources}) \cup {tmp}, tl_resources),
              l |-> [l1 EXCEPT !.resources = tmp,
                               !.entries = @ \o ents,
                               !.num_resources = @ + b.n],
              next |-> "loop",
              status |-> b.status]

\* *resources_p = resources; *num_resources_p = num_resources; return UCS_OK
QueryDone(l) ==
    [entries |-> l.entries,
     num_resources_p |-> l.num_resources,
     resources_p |-> l.resources,
     status |-> UCS_OK,
     written |-> TRUE]

\* the caller's output variables when the call does not write them
QueryFailed(status) ==
    [entries |-> <<>>,
     num_resources_p |-> 0,
     resources_p |-> NoBlock,
     status |-> status,
     written |-> FALSE]

uct_release_tl_resource_list(h, resources) == ucs_free(h, resources)

\* ucs_snprintf_zero(buf, size, "%s", str): the string cut to size - 1
\* bytes, the rest of buf zeroed
ucs_snprintf_zero(size, str) ==
    LET len == CHOOSE n \in 0..(size - 1) :
                   /\ \A k \in 1..n : str[k] # 0
                   /\ (n = size - 1 \/ str[n + 1] = 0)
    IN  [k \in 1..size |-> IF k <= len THEN str[k] ELSE 0]

\* malloc_ok: whether the ucs_malloc of the descriptor succeeds
uct_md_query_single_md_resource(h, name, malloc_ok) ==
    LET resource == ucs_malloc(h, "md resource")
    IN  IF ~malloc_ok
        THEN [calls |-> <<>>,
              heap |-> h,
              md_name |-> NULL,
              num_resources_p |-> 0,
              resources_p |-> NoBlock,
              status |-> UCS_ERR_NO_MEMORY,
              written |-> FALSE]
        ELSE [calls |-> <<>>,
              heap |-> h \cup {resource},
              md_name |-> ucs_snprintf_zero(UCT_MD_NAME_MAX, name),
              num_resources_p |-> 1,
              resources_p |-> resource,
              status |-> UCS_OK,
              written |-> TRUE]

uct_md_query_empty_md_resource ==
    [calls |-> <<>>,
     num_resources_p |-> 0,
     resources_p |-> NoBlock,
     status |-> UCS_OK,
     written |-> TRUE]

\* -------------------------------------------------- configuration bundles
Table(kind, tl) == [kind |-> kind, tl |-> tl]
\* a bundle: its block, the table it was parsed with, the copy of the prefix
\* and the block that holds it, and the blocks its field values own
NoBundle == [blk |-> NoBlock,
             fields |-> {},
             prefix_blk |-> NoBlock,
             table |-> Table("null", 0),
             table_prefix |-> NULL]

RECURSIVE ucs_strdup(_)
ucs_strdup(str) == IF str[1] = 0 THEN <<0>> ELSE <<str[1]>> \o ucs_strdup(Tail(str))

\* component->cfg_prefix and tlc->cfg_prefix
MdCfgPrefix == <<2, 2, 0>>
TlCfgPrefix(name) == name

\* What the allocator and the parser may do during one read: the parser
\* fails leaving nothing behind, or succeeds leaving `owned` field values
\* that own heap memory in the payload.
ReadOutcomes ==
    [calloc_ok : BOOLEAN, fill : {UCS_ERR_INVALID_PARAM, UCS_ERR_NO_MEMORY},
     owned : {0}, strdup_ok : {TRUE}]
    \cup [calloc_ok : {TRUE}, fill : {UCS_OK}, owned : 0..MaxOwned, strdup_ok : BOOLEAN]

\* the n blocks the parser allocates for field values, one after another
RECURSIVE FieldBlocks(_, _)
FieldBlocks(h, n) ==
    IF n = 0 THEN {}
    ELSE LET b == ucs_malloc(h, "field")
         IN  {b} \cup FieldBlocks(h \cup {b}, n - 1)

\* ucs_config_parser_release_opts(opts, fields)
ucs_config_parser_release_opts(h, bundle) == h \ bundle.fields

\* h: the heap when the call is made; heap: the heap when it returns
uct_config_read(h, config_table, cfg_prefix, o) ==
    LET config_bundle == ucs_malloc(h, "uct_config")
        h1            == h \cup {config_bundle}
        fields        == FieldBlocks(h1, o.owned)
        h2            == h1 \cup fields
        table_prefix  == ucs_malloc(h2, "table_prefix")
        fill == <<[fn |-> "ucs_config_parser_fill_opts", table |-> config_table]>>
    IN  IF ~o.calloc_ok
        THEN [bundle |-> NoBundle,
              calls |-> <<>>,
              heap |-> h,
              status |-> UCS_ERR_NO_MEMORY,
              written |-> FALSE]
        ELSE IF o.fill # UCS_OK
        THEN [bundle |-> NoBundle,
              calls |-> fill,
              heap |-> ucs_free(h1, config_bundle),
              status |-> o.fill,
              written |-> FALSE]
        ELSE IF ~o.strdup_ok
        THEN [bundle |-> NoBundle,
              calls |-> fill,
              heap |-> ucs_free(h2, config_bundle),
              status |-> UCS_ERR_NO_MEMORY,
              written |-> FALSE]
        ELSE [bundle |-> [blk |-> config_bundle,
                          fields |-> fields,
                          prefix_blk |-> table_prefix,
                          table |-> config_table,
                          table_prefix |-> ucs_strdup(cfg_prefix)],
              calls |-> fill,
              heap |-> h2 \cup {table_prefix},
              status |-> UCS_OK,
              written |-> TRUE]

uct_md_config_read(h, o) ==
    uct_config_read(h, Table("md_config_table", 0), MdCfgPrefix, o)

uct_md_iface_config_read(h, list, name, debug, tl_name, mdq, o) ==
    LET qr  == uct_md_query(name, debug, mdq)
        tlc == uct_find_tl_on_md(list, qr.attr.cap_flags, tl_name)
        r   == uct_config_read(h, Table("iface_config_table", tlc),
                               TlCfgPrefix(list[tlc]), o)
    IN  IF qr.status # UCS_OK
        THEN [bundle |-> NoBundle,
              calls |-> qr.calls,
              heap |-> h,
              status |-> qr.status,
              written |-> FALSE]
        ELSE IF tlc = 0
        THEN [bundle |-> NoBundle,
              calls |-> qr.calls,
              heap |-> h,
              status |-> UCS_ERR_NO_DEVICE,
              written |-> FALSE]
        ELSE [r EXCEPT !.calls = qr.calls \o @]

\* ucs_config_parser_release_opts; ucs_free(table_prefix); ucs_free(bundle)
uct_config_release(h, bundle) ==
    ucs_free(ucs_free(ucs_config_parser_release_opts(h, bundle),
                      bundle.prefix_blk),
             bundle.blk)

\* uct_config_get / uct_config_modify: the parser call they make
uct_config_get(bundle, name) ==
    <<[fn |-> "ucs_config_parser_get_value", name |-> name, table |-> bundle.table]>>
uct_config_modify(bundle, name) ==
    <<[fn |-> "ucs_config_parser_set_value", name |-> name, table |-> bundle.table]>>

\* ================================================================ actions
InitWith(Debug, Check, Names, Lists) ==
    /\ ENABLE_DEBUG_DATA \in Debug
    /\ ENABLE_PARAMS_CHECK \in Check
    /\ mdc_name \in Names
    /\ tl_list \in Lists
    /\ op = "none" /\ args = <<>> /\ ret = <<>> /\ calls = <<>>
    /\ heap = {} /\ pc = "idle" /\ q = QueryLocals /\ cfg = {}

Init == InitWith(BOOLEAN, BOOLEAN, ComponentNames, TlLists)

\* The record of a call is cleared (Forget) before the next call is made.
Forget ==
    /\ pc = "idle" /\ op # "none"
    /\ op' = "none" /\ args' = <<>> /\ ret' = <<>> /\ calls' = <<>>
    /\ UNCHANGED <<registry, heap, pc, q, cfg>>

\* a call that completes in one step and touches neither heap nor bundle
Call(name, a, r) ==
    /\ pc = "idle" /\ op = "none"
    /\ op' = name /\ args' = a /\ ret' = r /\ calls' = r.calls
    /\ UNCHANGED <<registry, heap, pc, q, cfg>>

\* names a caller may ask for: none, the registered ones, and "aba"
AskedNames == {NULL, <<1, 2, 1, 0>>} \cup TlNames

FindTl ==
    \E md_flags \in MdFlagWords, tl_name \in AskedNames :
        Call("uct_find_tl_on_md", [md_flags |-> md_flags, tl_name |-> tl_name],
             [calls |-> <<>>, tlc |-> uct_find_tl_on_md(tl_list, md_flags, tl_name)])

MdQuery ==
    \E comp \in MdQueryResults :
        Call("uct_md_query", [comp |-> comp],
             uct_md_query(mdc_name, ENABLE_DEBUG_DATA, comp))

MemAlloc ==
    \E length \in {0, 10}, flags \in MemFlagWords, comp \in MemResults :
        Call("uct_md_mem_alloc", [comp |-> comp, flags |-> flags, length |-> length],
             uct_md_mem_alloc(length, flags, comp))

MemReg ==
    \E address \in {0, 4096}, length \in {0, 10}, flags \in MemFlagWords,
       comp \in MemResults :
        Call("uct_md_mem_reg",
             [address |-> address, comp |-> comp, flags |-> flags, length |-> length],
             uct_md_mem_reg(address, length, flags, comp))

MemAdvise ==
    \E addr \in {0, 4096}, length \in {0, 10}, comp \in MemResults :
        Call("uct_md_mem_advise", [address |-> addr, comp |-> comp, length |-> length],
             uct_md_mem_advise(addr, length, comp))

RkeyUnpack ==
    \E rkey_buffer \in RkeyBuffers, comp \in CompStatus :
        Call("uct_rkey_unpack", [comp |-> comp, rkey_buffer |-> rkey_buffer],
             uct_rkey_unpack(mdc_name, ENABLE_DEBUG_DATA, ENABLE_PARAMS_CHECK,
                             rkey_buffer, comp))

\* the MD query behaviours that matter to a caller of uct_md_query
MdQueryForCallers ==
    {r \in MdQueryResults : /\ r.attr.rkey_packed_size = 8
                            /\ r.attr.component_name = NameArray(<<1>>)}

IfaceOpen ==
    \E worker \in {1, 2}, params \in IfaceParams, mdq \in MdQueryForCallers,
       tl \in IfaceResults :
        Call("uct_iface_open",
             [config |-> 3,
              mdq |-> mdq,
              params |-> params,
              tl |-> tl,
              worker |-> worker],
             uct_iface_open(tl_list, mdc_name, ENABLE_DEBUG_DATA, ENABLE_PARAMS_CHECK,
                            worker, params, 3, mdq, tl))

StubRkeyUnpack ==
    \E rkey_buffer \in RkeyBuffers :
        Call("uct_md_stub_rkey_unpack", [rkey_buffer |-> rkey_buffer],
             uct_md_stub_rkey_unpack(rkey_buffer))

\* ---- uct_md_query_tl_resources, one action per loop iteration
\* (args.heap: the heap when the call was made)
QueryBegin ==
    /\ pc = "idle" /\ op = "none"
    /\ Cardinality(Held(heap, "md_resources")) < MaxHeld
    /\ pc' = "loop" /\ q' = QueryLocals
    /\ op' = "uct_md_query_tl_resources" /\ args' = [heap |-> heap]
    /\ ret' = QueryFailed("pending") /\ calls' = <<>>
    /\ UNCHANGED <<registry, heap, cfg>>

QueryStep ==
    /\ pc = "loop" /\ q.i <= Len(tl_list)
    /\ \E b \in TlBehaviours :
        LET r == QueryIter(q, heap, tl_list[q.i], b)
        IN  /\ q' = r.l /\ heap' = r.heap
            /\ calls' = Append(calls, [alloc_failed |-> (r.next = "return"),
                                       fn |-> "tl.query_resources",
                                       n |-> b.n,
                                       status |-> b.status,
                                       tl |-> q.i])
            /\ pc' = CASE r.next = "loop"   -> "loop"
                      [] r.next = "return" -> "idle"
                      [] r.next = "abort"  -> "aborted"
            /\ ret' = IF r.next = "return" THEN QueryFailed(r.status) ELSE ret
    /\ UNCHANGED <<registry, op, args, cfg>>

QueryReturn ==
    /\ pc = "loop" /\ q.i > Len(tl_list)
    /\ pc' = "idle" /\ ret' = QueryDone(q)
    /\ UNCHANGED <<registry, op, args, calls, heap, q, cfg>>

\* the caller releases an array it holds, or the null array of an empty result
ReleaseTlResources ==
    /\ pc = "idle" /\ op = "none"
    /\ \E blk \in Held(heap, "md_resources") \cup {NoBlock} :
        /\ heap' = uct_release_tl_resource_list(heap, blk)
        /\ op' = "uct_release_tl_resource_list" /\ args' = [resources |-> blk]
    /\ ret' = <<>> /\ calls' = <<>>
    /\ UNCHANGED <<registry, pc, q, cfg>>

QuerySingleMdResource ==
    /\ pc = "idle" /\ op = "none"
    /\ Cardinality(Held(heap, "md resource")) < MaxHeld
    /\ \E malloc_ok \in BOOLEAN :
        LET r == uct_md_query_single_md_resource(heap, mdc_name, malloc_ok)
        IN  /\ op' = "uct_md_query_single_md_resource"
            /\ args' = [heap |-> heap, malloc_ok |-> malloc_ok]
            /\ ret' = r /\ calls' = r.calls /\ heap' = r.heap
    /\ UNCHANGED <<registry, pc, q, cfg>>

QueryEmptyMdResource ==
    Call("uct_md_query_empty_md_resource", <<>>, uct_md_query_empty_md_resource)

\* ---- configuration bundles
\* the field-value blocks no bundle the caller holds accounts for
Leaked(h, bundles) == Held(h, "field") \ UNION {b.fields : b \in bundles}

ConfigRead(name, a, r) ==
    /\ pc = "idle" /\ op = "none" /\ Cardinality(cfg) < MaxHeld
    /\ Cardinality(Leaked(heap, cfg)) < MaxLeaked
    /\ op' = name /\ args' = a /\ ret' = r /\ calls' = r.calls
    /\ heap' = r.heap
    /\ cfg' = IF r.status = UCS_OK THEN cfg \cup {r.bundle} ELSE cfg
    /\ UNCHANGED <<registry, pc, q>>

MdConfigRead ==
    \E o \in ReadOutcomes :
        ConfigRead("uct_md_config_read", [heap |-> heap, o |-> o],
                   uct_md_config_read(heap, o))

IfaceConfigRead ==
    \E tl_name \in AskedNames, mdq \in MdQueryForCallers, o \in ReadOutcomes :
        ConfigRead("uct_md_iface_config_read",
                   [heap |-> heap, mdq |-> mdq, o |-> o, tl_name |-> tl_name],
                   uct_md_iface_config_read(heap, tl_list, mdc_name,
                                            ENABLE_DEBUG_DATA, tl_name, mdq, o))

ConfigRelease ==
    /\ pc = "idle" /\ op = "none"
    /\ \E bundle \in cfg :
        /\ heap' = uct_config_release(heap, bundle) /\ cfg' = cfg \ {bundle}
        /\ op' = "uct_config_release" /\ args' = [bundle |-> bundle]
    /\ ret' = <<>> /\ calls' = <<>>
    /\ UNCHANGED <<registry, pc, q>>

ConfigGet ==
    /\ pc = "idle" /\ op = "none"
    /\ \E bundle \in cfg, name \in {<<1, 0>>, <<2, 0>>},
          status \in {UCS_OK, UCS_ERR_INVALID_PARAM} :
        /\ op' = "uct_config_get" /\ args' = [bundle |-> bundle, name |-> name]
        /\ ret' = [status |-> status] /\ calls' = uct_config_get(bundle, name)
    /\ UNCHANGED <<registry, heap, pc, q, cfg>>

ConfigModify ==
    /\ pc = "idle" /\ op = "none"
    /\ \E bundle \in cfg, name \in {<<1, 0>>, <<2, 0>>},
          status \in {UCS_OK, UCS_ERR_INVALID_PARAM} :
        /\ op' = "uct_config_modify" /\ args' = [bundle |-> bundle, name |-> name]
        /\ ret' = [status |-> status] /\ calls' = uct_config_modify(bundle, name)
    /\ UNCHANGED <<registry, heap, pc, q, cfg>>

\* ========================================================= specifications
NextLookup    == FindTl \/ Forget
NextMdQuery   == MdQuery \/ Forget
NextMem       == MemAlloc \/ MemReg \/ MemAdvise \/ Forget
NextRkey      == RkeyUnpack \/ StubRkeyUnpack \/ Forget
NextIface     == IfaceOpen \/ Forget
NextDiscovery == QueryBegin \/ QueryStep \/ QueryReturn \/ ReleaseTlResources
                 \/ QuerySingleMdResource \/ QueryEmptyMdResource \/ Forget
NextConfig    == MdConfigRead \/ IfaceConfigRead \/ ConfigRelease
                 \/ ConfigGet \/ ConfigModify \/ Forget

Next == FindTl \/ MdQuery \/ MemAlloc \/ MemReg \/ MemAdvise \/ RkeyUnpack
        \/ StubRkeyUnpack \/ IfaceOpen \/ QueryBegin \/ QueryStep \/ QueryReturn
        \/ ReleaseTlResources \/ QuerySingleMdResource \/ QueryEmptyMdResource
        \/ MdConfigRead \/ IfaceConfigRead
        \/ ConfigRelease \/ ConfigGet \/ ConfigModify \/ Forget

\* The whole layer.  Operations of different groups share no state but the
\* registry, which no operation changes, so each group is checked under a
\* specification of its own below.
Spec == Init /\ [][Next]_vars

OneName == {NameArray(<<1>>)}

\* one specification per group of operations, the part of the registry the
\* group does not read held fixed
SpecLookup ==
    InitWith({FALSE}, {TRUE}, OneName, TlLists) /\ [][NextLookup]_vars
SpecMdQuery ==
    InitWith(BOOLEAN, {TRUE}, ComponentNames, {<<>>}) /\ [][NextMdQuery]_vars
SpecMem ==
    InitWith({FALSE}, {TRUE}, OneName, {<<>>}) /\ [][NextMem]_vars
SpecRkey ==
    InitWith(BOOLEAN, BOOLEAN, ComponentNames, {<<>>}) /\ [][NextRkey]_vars
SpecIface ==
    InitWith({FALSE}, BOOLEAN, OneName, TlLists) /\ [][NextIface]_vars
SpecDiscovery ==
    InitWith({FALSE}, {TRUE}, OneName, TlLists) /\ [][NextDiscovery]_vars
SpecConfig ==
    InitWith({FALSE}, {TRUE}, OneName, TlLists) /\ [][NextConfig]_vars

\* ================================================================ claims
\* ---- what the claims speak of, stated without the operators above
\* the string held in the first n bytes of a buffer
RECURSIVE StringIn(_, _)
StringIn(buf, n) ==
    IF n = 0 \/ buf = <<>> \/ buf[1] = 0 THEN <<>>
    ELSE <<buf[1]>> \o StringIn(Tail(buf), n - 1)

\* the transport the lookup is specified to give: 0 for none
FirstTl(md_flags, tl_name) ==
    LET hits == IF tl_name # NULL
                THEN {i \in 1..Len(tl_list) : tl_list[i] = tl_name}
                ELSE IF "UCT_MD_FLAG_SOCKADDR" \in md_flags
                     THEN 1..Len(tl_list) ELSE {}
    IN  IF hits = {} THEN 0 ELSE CHOOSE i \in hits : \A j \in hits : i <= j

CallsOf(fn) == {k \in 1..Len(calls) : calls[k].fn = fn}

RECURSIVE SumOk(_)
SumOk(k) ==
    IF k = 0 THEN 0
    ELSE SumOk(k - 1) + (IF calls[k].status = UCS_OK THEN calls[k].n ELSE 0)

EntriesOf(tl) == {k \in 1..Len(ret.entries) : ret.entries[k].src = tl}

QueryReturned == op = "uct_md_query_tl_resources" /\ pc = "idle"
AllocFailed == \E k \in 1..Len(calls) : calls[k].alloc_failed

\* C1: when no allocation fails, uct_md_query_tl_resources returns UCS_OK
\* with as many entries as the transports whose query succeeded reported in
\* total, each transport's entries carrying its name; every registered
\* transport is queried, those after a failing one included.
C1_QueryAggregates ==
    (QueryReturned /\ ~AllocFailed) =>
        /\ ret.status = UCS_OK /\ ret.written
        /\ Len(calls) = Len(tl_list)
        /\ \A k \in 1..Len(calls) : calls[k].tl = k
        /\ ret.num_resources_p = SumOk(Len(calls))
        /\ Len(ret.entries) = SumOk(Len(calls))
        /\ \A k \in 1..Len(calls) :
              Cardinality(EntriesOf(k)) =
                  IF calls[k].status = UCS_OK THEN calls[k].n ELSE 0
        /\ \A k \in 1..Len(ret.entries) :
              ret.entries[k].tl_name = tl_list[ret.entries[k].src]

\* a failing transport followed by one whose entries are returned
C1_Witness ==
    /\ QueryReturned /\ ~AllocFailed /\ Len(calls) = 2
    /\ calls[1].status # UCS_OK /\ calls[2].status = UCS_OK /\ calls[2].n = 2
    /\ ret.num_resources_p = 2

MemRejects == ret.status = UCS_ERR_INVALID_PARAM /\ calls = <<>>

\* C2: uct_md_mem_reg with a null address, a zero length or no access flag,
\* and uct_md_mem_alloc with no access flag, return UCS_ERR_INVALID_PARAM
\* and do not invoke the component, whatever the component would return.
C2_MemParamsRejected ==
    /\ (/\ op = "uct_md_mem_reg"
        /\ \/ args.address = 0 \/ args.length = 0
           \/ \A f \in args.flags : f \notin UCT_MD_MEM_ACCESS_ALL) => MemRejects
    /\ (/\ op = "uct_md_mem_alloc"
        /\ \A f \in args.flags : f \notin UCT_MD_MEM_ACCESS_ALL) => MemRejects

\* a registration with flags that hold no access bit, the component willing
C2_Witness ==
    /\ op = "uct_md_mem_reg" /\ args.address # 0 /\ args.length # 0
    /\ args.flags = {"UCT_MD_MEM_FLAG_NONBLOCK"} /\ args.comp.status = UCS_OK
    /\ MemRejects

RegionDiffers ==
    StringIn(args.rkey_buffer, UCT_MD_COMPONENT_NAME_MAX)
        # StringIn(mdc_name, UCT_MD_COMPONENT_NAME_MAX)
AfterRegion ==
    [k \in 1..(Len(args.rkey_buffer) - UCT_MD_COMPONENT_NAME_MAX) |->
        args.rkey_buffer[k + UCT_MD_COMPONENT_NAME_MAX]]
Forwarded(buf) ==
    /\ Len(calls) = 1 /\ calls[1].fn = "rkey_unpack" /\ calls[1].rkey_buffer = buf
    /\ ret.status = args.comp

\* C3 as stated: in debug-identity mode a differing name region is rejected
\* with UCS_ERR_INVALID_PARAM and the component is not invoked, a matching
\* one has the rest of the buffer forwarded; without the mode the whole
\* buffer is forwarded.
C3_AsStated ==
    op = "uct_rkey_unpack" =>
        IF ENABLE_DEBUG_DATA
        THEN IF RegionDiffers
             THEN ret.status = UCS_ERR_INVALID_PARAM /\ calls = <<>>
             ELSE Forwarded(AfterRegion)
        ELSE Forwarded(args.rkey_buffer)

\* C3, amended: the rejection happens in debug-identity mode only when
\* parameter checking is compiled in as well; in debug-identity mode without
\* it the name region is skipped unexamined and the rest is forwarded.
C3_RkeyUnpack ==
    op = "uct_rkey_unpack" =>
        IF ENABLE_DEBUG_DATA
        THEN IF ENABLE_PARAMS_CHECK /\ RegionDiffers
             THEN ret.status = UCS_ERR_INVALID_PARAM /\ calls = <<>>
             ELSE Forwarded(AfterRegion)
        ELSE Forwarded(args.rkey_buffer)

\* a buffer packed by another component, rejected although the component
\* would have accepted it
C3_Witness ==
    /\ op = "uct_rkey_unpack" /\ ENABLE_DEBUG_DATA /\ ENABLE_PARAMS_CHECK
    /\ RegionDiffers /\ Len(args.rkey_buffer) > UCT_MD_COMPONENT_NAME_MAX
    /\ args.comp = UCS_OK
    /\ ret.status = UCS_ERR_INVALID_PARAM /\ calls = <<>>

\* C4: with a name, uct_find_tl_on_md returns the first transport in
\* registration order whose name equals it and none when no name matches,
\* whatever the flags; without a name it returns the first registered
\* transport when the flags hold the sockaddr capability, none otherwise.
C4_FindFirstMatch ==
    op = "uct_find_tl_on_md" => ret.tlc = FirstTl(args.md_flags, args.tl_name)

\* the name asked for is registered after a name that is a prefix of it
C4_Witness ==
    /\ op = "uct_find_tl_on_md" /\ Len(tl_list) = 2
    /\ tl_list[1] = <<1, 0>> /\ tl_list[2] = <<1, 2, 0>>
    /\ args.tl_name = <<1, 2, 0>> /\ "UCT_MD_FLAG_SOCKADDR" \in args.md_flags
    /\ ret.tlc = 2

LacksOpenMode == "UCT_IFACE_PARAM_FIELD_OPEN_MODE" \notin args.params.field_mask
NoLookupNoOpen == CallsOf("uct_find_tl_on_md") = {} /\ CallsOf("tl.iface_open") = {}

\* C5 as stated: uct_iface_open without the open-mode field returns
\* UCS_ERR_INVALID_PARAM, whatever the component does, before any transport
\* lookup and before any transport's iface_open.
C5_AsStated ==
    (op = "uct_iface_open" /\ LacksOpenMode) =>
        ret.status = UCS_ERR_INVALID_PARAM /\ NoLookupNoOpen

\* C5, amended: the MD is queried first.  If that query fails its status is
\* returned; if it succeeds and parameter checking is compiled in,
\* UCS_ERR_INVALID_PARAM is returned.  In both cases there is no transport
\* lookup and no iface_open.
C5_MissingOpenMode ==
    (op = "uct_iface_open" /\ LacksOpenMode) =>
        /\ calls # <<>> /\ calls[1].fn = "md.query"
        /\ args.mdq.status # UCS_OK =>
              ret.status = args.mdq.status /\ NoLookupNoOpen
        /\ (args.mdq.status = UCS_OK /\ ENABLE_PARAMS_CHECK) =>
              ret.status = UCS_ERR_INVALID_PARAM /\ NoLookupNoOpen

\* the field is missing although a device and a registered name are given
C5_Witness ==
    /\ op = "uct_iface_open" /\ LacksOpenMode /\ ENABLE_PARAMS_CHECK
    /\ args.mdq.status = UCS_OK
    /\ "UCT_IFACE_OPEN_MODE_DEVICE" \in args.params.open_mode
    /\ args.params.tl_name # NULL
    /\ FirstTl(args.mdq.attr.cap_flags, args.params.tl_name) # 0
    /\ ret.status = UCS_ERR_INVALID_PARAM /\ Len(calls) = 1

DeviceMode == "UCT_IFACE_OPEN_MODE_DEVICE" \in args.params.open_mode
SockaddrMode ==
    \/ "UCT_IFACE_OPEN_MODE_SOCKADDR_CLIENT" \in args.params.open_mode
    \/ "UCT_IFACE_OPEN_MODE_SOCKADDR_SERVER" \in args.params.open_mode
OpenModeGiven ==
    /\ op = "uct_iface_open" /\ args.mdq.status = UCS_OK /\ ~LacksOpenMode

\* C6: with a recognized open mode and a successful MD query the transport
\* is looked up by the requested name in device mode and by no name in the
\* sockaddr modes; when none is found the call returns UCS_ERR_NO_DEVICE and
\* opens nothing, otherwise the iface_open of that transport alone is
\* invoked, once, with the caller's worker, params and config, and what it
\* returns is returned.
C6_OpenDispatch ==
    (OpenModeGiven /\ (DeviceMode \/ SockaddrMode)) =>
        LET found == FirstTl(args.mdq.attr.cap_flags,
                             IF DeviceMode THEN args.params.tl_name ELSE NULL)
            opens == CallsOf("tl.iface_open")
        IN  IF found = 0
            THEN ret.status = UCS_ERR_NO_DEVICE /\ opens = {}
            ELSE /\ Cardinality(opens) = 1
                 /\ \A k \in opens :
                       /\ calls[k].tl = found
                       /\ calls[k].worker = args.worker
                       /\ calls[k].params = args.params
                       /\ calls[k].config = args.config
                 /\ ret.status = args.tl.status
                 /\ ret.iface = args.tl.iface

\* a sockaddr server opened on a component whose second transport is asked
\* for by name in the params: the first one is opened, and fails
C6_Witness ==
    /\ OpenModeGiven /\ ~DeviceMode /\ SockaddrMode
    /\ Len(tl_list) = 2 /\ args.params.tl_name = tl_list[2]
    /\ tl_list[1] # tl_list[2]
    /\ Cardinality(CallsOf("tl.iface_open")) = 1
    /\ calls[Len(calls)].tl = 1
    /\ ret.status = UCS_ERR_IO_ERROR

\* C7: when the component's query succeeds uct_md_query reports the
\* component's name and, in debug-identity mode, the component's packed rkey
\* size plus the name width (the size as reported without the mode); when it
\* fails its status is returned and both fields are as the component left
\* them.
C7_MdQuery ==
    op = "uct_md_query" =>
        IF args.comp.status = UCS_OK
        THEN /\ ret.status = UCS_OK
             /\ ret.attr.component_name = mdc_name
             /\ ret.attr.rkey_packed_size =
                    args.comp.attr.rkey_packed_size
                    + (IF ENABLE_DEBUG_DATA THEN UCT_MD_COMPONENT_NAME_MAX ELSE 0)
             /\ ret.attr.cap_flags = args.comp.attr.cap_flags
        ELSE /\ ret.status = args.comp.status
             /\ ret.attr = args.comp.attr

\* the component wrote another name, the mode is off, the size is kept
C7_Witness ==
    /\ op = "uct_md_query" /\ ~ENABLE_DEBUG_DATA /\ args.comp.status = UCS_OK
    /\ args.comp.attr.component_name # mdc_name
    /\ ret.attr.component_name = mdc_name
    /\ ret.attr.rkey_packed_size = 8

\* C8 as stated: with the open-mode field present and an open mode that is
\* none of device, sockaddr client, sockaddr server, uct_iface_open returns
\* UCS_ERR_INVALID_PARAM, and never UCS_OK without a transport's iface_open
\* having returned UCS_OK.
C8_AsStated ==
    (OpenModeGiven /\ ~DeviceMode /\ ~SockaddrMode) =>
        /\ ret.status = UCS_ERR_INVALID_PARAM
        /\ ret.status = UCS_OK =>
              (CallsOf("tl.iface_open") # {} /\ args.tl.status = UCS_OK)

\* C9: when growing the output array fails, uct_md_query_tl_resources
\* returns UCS_ERR_NO_MEMORY, nothing allocated during the call is still
\* allocated (the heap is as it was when the call was made), the caller's
\* pointer and count are not written, and the transport whose entries were
\* being appended is the last one queried.
C9_QueryNoMemory ==
    (QueryReturned /\ AllocFailed) =>
        /\ ret.status = UCS_ERR_NO_MEMORY
        /\ heap = args.heap
        /\ ~ret.written /\ ret.resources_p = NoBlock /\ ret.num_resources_p = 0
        /\ calls[Len(calls)].alloc_failed
        /\ \A k \in 1..Len(calls) - 1 : ~calls[k].alloc_failed
        /\ \A k \in 1..Len(calls) : calls[k].tl = k

\* the first transport's entries were accumulated, the first of two or
\* more transports that follow fails to have its entries appended
C9_Witness ==
    /\ QueryReturned /\ Len(calls) = 2 /\ Len(tl_list) > 1
    /\ calls[1].status = UCS_OK /\ calls[1].n > 0
    /\ calls[2].alloc_failed /\ calls[2].n > 0
    /\ ret.status = UCS_ERR_NO_MEMORY /\ heap = args.heap

ConfigReadDone == op \in {"uct_md_config_read", "uct_md_iface_config_read"}

\* C10 as stated: a configuration read that fails writes no bundle and
\* leaves nothing it acquired allocated, the field values the parser filled
\* included; one that succeeds records the table it was parsed with.
C10_AsStated ==
    ConfigReadDone =>
        IF ret.status # UCS_OK
        THEN ~ret.written /\ ret.bundle \notin cfg /\ heap = args.heap
        ELSE /\ ret.written /\ ret.bundle \in cfg
             /\ \E k \in CallsOf("ucs_config_parser_fill_opts") :
                   calls[k].table = ret.bundle.table

====
